---- MODULE Spec2Model ----
(***************************************************************************)
(* Model of lib/mongoose-validator.js: validate(options) builds a          *)
(* {validator, message, ...passthrough} descriptor; validate.extend        *)
(* registers a custom rule in the two process-wide maps customValidators   *)
(* and customErrorMessages.                                                *)
(*                                                                         *)
(* JavaScript values are records [t, v]: t is the kind of value, v its     *)
(* content.  Text is a sequence of pieces; the pieces "{ARGS[" and "]}"    *)
(* and the digits are the ones the interpolation pattern looks at.         *)
(***************************************************************************)
EXTENDS Integers, Sequences, FiniteSets, TLC

VARIABLES customValidators, customErrorMessages, call, result, run

vars == <<customValidators, customErrorMessages, call, result, run>>

-----------------------------------------------------------------------------
(* Bounds *)

MaxTplLen == 5
MaxArgs == 2

-----------------------------------------------------------------------------
(* Values *)

Undefined == [t |-> "undefined", v |-> <<>>]
Null == [t |-> "null", v |-> <<>>]
Num(n) == [t |-> "number", v |-> n]
Bool(b) == [t |-> "boolean", v |-> b]
Str(s) == [t |-> "string", v |-> s]
Arr(s) == [t |-> "array", v |-> s]
Fn(id) == [t |-> "function", v |-> id]

Open == "{ARGS["
Close == "]}"
Digits == {"0", "1"}

\* Object.prototype members every object literal inherits
ObjectConstructor == Fn(<<"Object">>)
ObjectPrototype == {<<"constructor">>}

\* obj[key] on a plain object: own property, else the inherited one
Lookup(obj, key) ==
  IF key \in DOMAIN obj THEN obj[key]
  ELSE IF key \in ObjectPrototype THEN ObjectConstructor
  ELSE Undefined

\* obj[key] = val
Assign(obj, key, val) ==
  [k \in (DOMAIN obj) \cup {key} |-> IF k = key THEN val ELSE obj[k]]

\* options.<key>
Opt(o, key) == IF key \in DOMAIN o THEN o[key] ELSE Undefined

\* JavaScript truthiness, as used by ||, !! and if (...)
Truthy(x) ==
  CASE x.t = "undefined" -> FALSE
    [] x.t = "null" -> FALSE
    [] x.t = "number" -> x.v # 0
    [] x.t = "boolean" -> x.v
    [] x.t = "string" -> x.v # <<>>
    [] OTHER -> TRUE

\* typeof
TypeOf(x) ==
  CASE x.t = "null" -> "object"
    [] x.t = "array" -> "object"
    [] OTHER -> x.t

\* predicates of the is package
IsFunction(x) == x.t = "function"
IsString(x) == x.t = "string"
IsArray(x) == x.t = "array"
IsUndef(x) == x.t = "undefined"
IsNil(x) == x.t = "null"
IsEmpty(x) ==
  CASE x.t = "string" -> x.v = <<>>
    [] x.t = "array" -> x.v = <<>>
    [] OTHER -> ~Truthy(x)

\* String(x), the coercion String.prototype.replace applies to what the
\* replacer returns
DigitText(n) == IF n = 0 THEN <<"0">> ELSE <<"1">>
ToText(x) ==
  CASE x.t = "string" -> x.v
    [] x.t = "number" -> DigitText(x.v)
    [] x.t = "boolean" -> IF x.v THEN <<"true">> ELSE <<"false">>
    [] x.t = "null" -> <<"null">>
    [] x.t = "undefined" -> <<"undefined">>
    [] OTHER -> <<"[object]">>

-----------------------------------------------------------------------------
(* Helpers of the module *)

ReservedKeys == {"passIfEmpty", "message", "validator", "arguments"}

\* omit that drops only the first three of the keys
omitAllButArguments(obj, keys) ==
  [k \in (DOMAIN obj) \ (keys \ {"arguments"}) |-> obj[k]]

omit(obj, keys) == [k \in (DOMAIN obj) \ keys |-> obj[k]]

\* the external validation-rule library
LibNames == {<<"isEmail">>}
validatorjs == [n \in LibNames |-> Fn(<<"validatorjs">> \o n)]

\* default-error-messages.json
defaultErrorMessages ==
  [n \in LibNames |-> Str(<<"Invalid email ", Open, "0", Close>>)]

getValidatorFn(validator, cv) ==
  IF IsFunction(validator) THEN validator
  ELSE IF IsString(validator) /\ ~IsEmpty(validator)
    THEN IF Truthy(Lookup(validatorjs, validator.v))
           THEN Lookup(validatorjs, validator.v)
         ELSE IF Truthy(Lookup(cv, validator.v))
           THEN Lookup(cv, validator.v)
         ELSE Undefined
  ELSE Undefined

toArray(val) ==
  IF IsUndef(val) THEN <<>>
  ELSE IF IsArray(val) THEN val.v
  ELSE <<val>>

\* the first string that is not empty
findFirstNonEmptyString(vals) ==
  LET strs == SelectSeq(vals, LAMBDA x : IsString(x) /\ ~IsEmpty(x))
  IN IF strs = <<>> THEN Undefined ELSE Head(strs)

\* vals.filter(is.string).shift()
findFirstString(vals) ==
  LET strs == SelectSeq(vals, IsString)
  IN IF strs = <<>> THEN Undefined ELSE Head(strs)

\* the decimal value of a run of digits
RECURSIVE NumVal(_)
NumVal(ds) ==
  IF ds = <<>> THEN 0
  ELSE 10 * NumVal(SubSeq(ds, 1, Len(ds) - 1))
       + (IF ds[Len(ds)] = "1" THEN 1 ELSE 0)

\* args[submatch]: submatch is the matched digit text, an array index only
\* in canonical decimal form
ArgAt(args, sub) ==
  IF (Len(sub) = 1 \/ sub[1] # "0") /\ NumVal(sub) + 1 <= Len(args)
    THEN args[NumVal(sub) + 1]
  ELSE Undefined

\* the replacer that leaves the token of a missing argument in place
ReplacerKeepsMissing(args, sub) ==
  IF Truthy(ArgAt(args, sub)) THEN ArgAt(args, sub)
  ELSE Str(<<Open>> \o sub \o <<Close>>)

\* the replacer: args[submatch] || ''
Replacer(args, sub) ==
  IF Truthy(ArgAt(args, sub)) THEN ArgAt(args, sub) ELSE Str(<<>>)

\* the end of the digit run that starts at position i (i - 1 if none)
RECURSIVE DigitRunEnd(_, _)
DigitRunEnd(s, i) ==
  IF i <= Len(s) /\ s[i] \in Digits THEN DigitRunEnd(s, i + 1) ELSE i - 1

\* /{ARGS\[(\d+)\]}/ matches at position i
MatchesAt(s, i) ==
  /\ i <= Len(s)
  /\ s[i] = Open
  /\ DigitRunEnd(s, i + 1) >= i + 1
  /\ DigitRunEnd(s, i + 1) + 1 <= Len(s)
  /\ s[DigitRunEnd(s, i + 1) + 1] = Close

\* message.replace(/{ARGS\[(\d+)\]}/g, replacer), scanning from position i
RECURSIVE ReplaceFrom(_, _, _)
ReplaceFrom(s, args, i) ==
  IF i > Len(s) THEN <<>>
  ELSE IF MatchesAt(s, i)
    THEN ToText(Replacer(args, SubSeq(s, i + 1, DigitRunEnd(s, i + 1))))
         \o ReplaceFrom(s, args, DigitRunEnd(s, i + 1) + 2)
  ELSE <<s[i]>> \o ReplaceFrom(s, args, i + 1)

interpolateMessageWithArgs(message, args) ==
  ReplaceFrom((IF IsUndef(message) THEN Str(<<>>) ELSE message).v, args, 1)

\* calling a function value: the wrapper extend stores applies the
\* registered function to the same arguments
Throws == [t |-> "throws", v |-> <<>>]
WrapperOf(fn) == Fn(<<"wrapper">> \o fn.v)
IsWrapper(f) == f.v # <<>> /\ Head(f.v) = "wrapper"
Target(f) == IF IsWrapper(f) THEN Fn(Tail(f.v)) ELSE f

\* what the rule functions of the model compute
RuleResult(f, argv) ==
  CASE f.v = <<"f1">> -> Bool(argv[1] = Str(<<"a">>))
    [] f.v = <<"f2">> -> Bool(Len(argv) > 1 /\ Truthy(argv[2]))
    [] f.v = <<"Object">> -> [t |-> "object", v |-> <<>>]
    [] OTHER -> IF IsString(argv[1]) THEN Bool(FALSE) ELSE Throws

\* fn.apply(this, argv): the calls made and the value returned
Apply(f, argv) ==
  [calls |-> <<[fn |-> Target(f), args |-> argv]>>,
   ret |-> RuleResult(Target(f), argv)]

\* the validator that passes every empty value, requested or not
createValidatorPassesEmpty(fn, args, passIfEmpty, val) ==
  LET validatorArgs == <<val>> \o args
  IN IF IsEmpty(val) \/ IsNil(val) \/ IsUndef(val)
       THEN [calls |-> <<>>, ret |-> Bool(TRUE)]
     ELSE Apply(fn, validatorArgs)

\* the validator that passes the rule function the value only
createValidatorWithoutArgs(fn, args, passIfEmpty, val) ==
  LET validatorArgs == <<val>>
  IN IF (passIfEmpty /\ (IsEmpty(val) \/ IsNil(val))) \/ IsUndef(val)
       THEN [calls |-> <<>>, ret |-> Bool(TRUE)]
     ELSE Apply(fn, validatorArgs)

\* the function createValidator returns, called with val
createValidator(fn, args, passIfEmpty, val) ==
  LET validatorArgs == <<val>> \o args
  IN IF (passIfEmpty /\ (IsEmpty(val) \/ IsNil(val))) \/ IsUndef(val)
       THEN [calls |-> <<>>, ret |-> Bool(TRUE)]
     ELSE Apply(fn, validatorArgs)

\* Object.assign(target, source)
ObjectAssign(target, source) ==
  [k \in (DOMAIN target) \cup (DOMAIN source) |->
     IF k \in DOMAIN source THEN source[k] ELSE target[k]]

-----------------------------------------------------------------------------
(* Outcomes *)

NoCall == [op |-> "none"]
NoRun == [val |-> Undefined, calls |-> <<>>, ret |-> Undefined, done |-> FALSE]
NoResult == [kind |-> "none"]
Error(text) == [kind |-> "error", text |-> text]
Registered == [kind |-> "registered"]
ValidatorClosure == Fn(<<"validator">>)
\* the descriptor returned, what its validator closes over, and the options
\* object as the call leaves it
Descriptor(obj, fn, args, passIfEmpty, o) ==
  [kind |-> "descriptor", obj |-> obj, fn |-> fn, args |-> args,
   passIfEmpty |-> passIfEmpty, options |-> o]

\* the texts of the errors thrown (the backquotes are written as quotes)
ErrValidatorUndefined == <<"validator option undefined">>
ErrValidatorType(x) ==
  <<"validator must be of type function or string, received ", TypeOf(x)>>
ErrNotExist(name) ==
  <<"validator '">> \o name
    \o <<"' does not exist in validator.js or as a custom validator">>
ErrNameType(x) == <<"name must be a string, received ", TypeOf(x)>>
ErrFnType(x) == <<"validator must be a function, received ", TypeOf(x)>>
ErrMsgType(x) == <<"message must be a string, received ", TypeOf(x)>>
ErrNameRequired == <<"name is required">>
ErrExists(name) == <<"validator '">> \o name \o <<"' already exists">>

-----------------------------------------------------------------------------
(* validate(options) *)

validatorName(o) ==
  IF IsString(Opt(o, "validator")) THEN Opt(o, "validator").v ELSE <<>>

messageStr(o, cem) ==
  findFirstString(<<Opt(o, "message"),
                    Lookup(cem, validatorName(o)),
                    Lookup(defaultErrorMessages, validatorName(o)),
                    Str(<<"Error">>)>>)

validateResult(o, cv, cem) ==
  IF IsUndef(Opt(o, "validator")) THEN Error(ErrValidatorUndefined)
  ELSE IF ~IsFunction(Opt(o, "validator")) /\ ~IsString(Opt(o, "validator"))
    THEN Error(ErrValidatorType(Opt(o, "validator")))
  ELSE IF IsUndef(getValidatorFn(Opt(o, "validator"), cv))
    THEN Error(ErrNotExist(validatorName(o)))
  ELSE LET passIfEmpty == Truthy(Opt(o, "passIfEmpty"))
           mongooseOpts == omit(o, ReservedKeys)
           args == toArray(Opt(o, "arguments"))
           message == interpolateMessageWithArgs(messageStr(o, cem), args)
           own == [k \in {"validator", "message"} |->
                     IF k = "validator" THEN ValidatorClosure
                     ELSE Str(message)]
       IN Descriptor(ObjectAssign(own, mongooseOpts),
                     getValidatorFn(Opt(o, "validator"), cv), args,
                     passIfEmpty, o)

validate(o) ==
  /\ call' = [op |-> "validate", options |-> o]
  /\ result' = validateResult(o, customValidators, customErrorMessages)
  /\ run' = NoRun
  /\ UNCHANGED <<customValidators, customErrorMessages>>

-----------------------------------------------------------------------------
(* validate.extend(name, fn, msg) *)

\* extendError without the check for an existing entry
extendErrorNoDuplicateCheck(name, fn, msg, cv) ==
  IF name.t # "string" THEN ErrNameType(name)
  ELSE IF fn.t # "function" THEN ErrFnType(fn)
  ELSE IF msg.t # "string" THEN ErrMsgType(msg)
  ELSE IF name.v = <<>> THEN ErrNameRequired
  ELSE <<>>

extendError(name, fn, msg, cv) ==
  IF name.t # "string" THEN ErrNameType(name)
  ELSE IF fn.t # "function" THEN ErrFnType(fn)
  ELSE IF msg.t # "string" THEN ErrMsgType(msg)
  ELSE IF name.v = <<>> THEN ErrNameRequired
  ELSE IF Truthy(Lookup(cv, name.v)) THEN ErrExists(name.v)
  ELSE <<>>

\* extend that stores the function but not the default message
extendWithoutMessage(name, fn, msgArg) ==
  LET msg == IF IsUndef(msgArg) THEN Str(<<"Error">>) ELSE msgArg
      err == extendError(name, fn, msg, customValidators)
  IN /\ call' = [op |-> "extend", name |-> name, fn |-> fn, msg |-> msgArg]
     /\ IF err # <<>>
          THEN /\ result' = Error(err)
               /\ UNCHANGED <<customValidators, customErrorMessages>>
          ELSE /\ result' = Registered
               /\ customValidators' =
                    Assign(customValidators, name.v, WrapperOf(fn))
               /\ UNCHANGED customErrorMessages
     /\ run' = NoRun

extend(name, fn, msgArg) ==
  LET msg == IF IsUndef(msgArg) THEN Str(<<"Error">>) ELSE msgArg
      err == extendError(name, fn, msg, customValidators)
  IN /\ call' = [op |-> "extend", name |-> name, fn |-> fn, msg |-> msgArg]
     /\ IF err # <<>>
          THEN /\ result' = Error(err)
               /\ UNCHANGED <<customValidators, customErrorMessages>>
          ELSE /\ result' = Registered
               /\ customValidators' =
                    Assign(customValidators, name.v, WrapperOf(fn))
               /\ customErrorMessages' =
                    Assign(customErrorMessages, name.v, msg)
     /\ run' = NoRun

-----------------------------------------------------------------------------
(* descriptor.validator(val) *)

validator(val) ==
  /\ result.kind = "descriptor"
  /\ LET r == createValidator(result.fn, result.args, result.passIfEmpty, val)
     IN run' = [val |-> val, calls |-> r.calls, ret |-> r.ret, done |-> TRUE]
  /\ UNCHANGED <<customValidators, customErrorMessages, call, result>>

-----------------------------------------------------------------------------
(* Inputs *)

Absent == [t |-> "absent", v |-> <<>>]

\* an options object literal; an Absent field is left out
MkOptions(v, a, p, m, extra) ==
  LET all == [k \in ReservedKeys |->
                CASE k = "validator" -> v
                  [] k = "arguments" -> a
                  [] k = "passIfEmpty" -> p
                  [] OTHER -> m]
  IN ObjectAssign([k \in {r \in ReservedKeys : all[r] # Absent} |-> all[k]],
                  extra)

UserFns == {Fn(<<"f1">>), Fn(<<"f2">>)}
Token0 == <<Open, "0", Close>>
CustomMsg == <<"custom ">> \o Token0

RuleNames == {<<"isFoo">>, <<"isEmail">>, <<"constructor">>}

MainValidators ==
  {Absent, Num(1), Fn(<<"f1">>), Str(<<>>)} \cup {Str(n) : n \in RuleNames}
MainMessages == {Absent, Num(1), Str(<<>>), Str(<<"m ">> \o Token0)}
MainArguments == {Absent, Num(1)}
MainOptions ==
  {MkOptions(v, a, Absent, m, <<>>) :
     v \in MainValidators, a \in MainArguments, m \in MainMessages}
MainVals == {Undefined, Str(<<>>), Str(<<"a">>)}

ExtendNames == {Num(1), Str(<<>>)} \cup {Str(n) : n \in RuleNames}
ExtendFns == UserFns \cup {Str(<<"notAFunction">>)}
ExtendMsgs == {Undefined, Num(1), Str(<<>>), Str(CustomMsg)}

-----------------------------------------------------------------------------
(* The module in use: any sequence of calls *)

Init ==
  /\ customValidators = <<>>
  /\ customErrorMessages = <<>>
  /\ call = NoCall
  /\ result = NoResult
  /\ run = NoRun

Validate == \E o \in MainOptions : validate(o)

Extend ==
  \E name \in ExtendNames, fn \in ExtendFns, msg \in ExtendMsgs :
    extend(name, fn, msg)

CallValidator == \E val \in MainVals : validator(val)

Next == Validate \/ Extend \/ CallValidator

Spec == Init /\ [][Next]_vars

TypeOK ==
  /\ DOMAIN customValidators \subseteq RuleNames
  /\ DOMAIN customErrorMessages \subseteq RuleNames
  /\ result.kind \in {"none", "error", "registered", "descriptor"}

-----------------------------------------------------------------------------
(* The registry is write-once *)

WellTyped(c) == c.fn.t = "function" /\ c.msg.t \in {"string", "undefined"}

\* C1 (as amended): an entry of the registry is never overwritten or
\* removed: once a name is registered, its function and default message stay
\* the same in every later state, and every later extend call with that name
\* fails, with the 'already exists' error when its fn is callable and its msg
\* is text or omitted (otherwise with the wrong-type error of the earlier
\* check).
C1_WriteOnce ==
  [][\A n \in DOMAIN customValidators :
       /\ n \in DOMAIN customValidators'
       /\ n \in DOMAIN customErrorMessages'
       /\ customValidators'[n] = customValidators[n]
       /\ customErrorMessages'[n] = customErrorMessages[n]
       /\ (call'.op = "extend" /\ call'.name = Str(n))
            => /\ result'.kind = "error"
               /\ WellTyped(call') => result'.text = ErrExists(n)
               /\ ~WellTyped(call')
                    => result'.text \in {ErrFnType(call'.fn),
                                         ErrMsgType(call'.msg)}]_vars

\* C1 witness: a second registration of a registered name, with another
\* function and message, was refused and the first entry is still stored.
C1_Witness ==
  /\ call.op = "extend"
  /\ call.name.t = "string"
  /\ call.name.v \in DOMAIN customValidators
  /\ call.fn \in UserFns
  /\ customValidators[call.name.v] # WrapperOf(call.fn)
  /\ call.msg = Str(<<>>)
  /\ customErrorMessages[call.name.v] = Str(CustomMsg)
  /\ result = Error(ErrExists(call.name.v))

\* C1 as stated: every later extend call with a registered name, whatever
\* fn and msg it carries, fails with the 'already exists' error.
C1_Original ==
  [][\A n \in DOMAIN customValidators :
       (call'.op = "extend" /\ call'.name = Str(n))
         => result' = Error(ErrExists(n))]_vars

-----------------------------------------------------------------------------
(* The registry changes only by a successful extend *)

\* C10: the function map and the default-message map of the registry always
\* have the same names; a step changes the registry only when it is an
\* extend call that succeeds, and then it adds exactly the given name to
\* both maps and changes no other entry; a validate call and an extend call
\* that raises leave both maps unchanged.
C10_RegistryFrame ==
  /\ [](DOMAIN customValidators = DOMAIN customErrorMessages)
  /\ [][/\ (customValidators' # customValidators
            \/ customErrorMessages' # customErrorMessages)
           => /\ call'.op = "extend"
              /\ result' = Registered
              /\ call'.name.v \notin DOMAIN customValidators
              /\ DOMAIN customValidators'
                   = DOMAIN customValidators \cup {call'.name.v}
              /\ DOMAIN customErrorMessages'
                   = DOMAIN customErrorMessages \cup {call'.name.v}
              /\ \A n \in DOMAIN customValidators :
                   /\ customValidators'[n] = customValidators[n]
                   /\ customErrorMessages'[n] = customErrorMessages[n]
        /\ (call'.op = "validate" \/ result'.kind = "error")
           => /\ customValidators' = customValidators
              /\ customErrorMessages' = customErrorMessages
        /\ result' = Registered
           => /\ call'.name.v \in DOMAIN customValidators'
              /\ call'.name.v \notin DOMAIN customValidators]_vars

\* C10 witness: a second name was registered next to an existing entry.
C10_Witness ==
  /\ call.op = "extend"
  /\ result = Registered
  /\ Cardinality(DOMAIN customValidators) = 2
  /\ DOMAIN customErrorMessages = DOMAIN customValidators

-----------------------------------------------------------------------------
(* The order of the checks of extend *)

\* the outcome the five checks give when 'already present' means registered
ExtendOutcome(c, registry) ==
  LET msg == IF c.msg = Undefined THEN Str(<<"Error">>) ELSE c.msg
  IN IF c.name.t # "string" THEN Error(ErrNameType(c.name))
     ELSE IF c.fn.t # "function" THEN Error(ErrFnType(c.fn))
     ELSE IF msg.t # "string" THEN Error(ErrMsgType(msg))
     ELSE IF c.name.v = <<>> THEN Error(ErrNameRequired)
     ELSE IF c.name.v \in DOMAIN registry THEN Error(ErrExists(c.name.v))
     ELSE Registered

\* C9: the outcome of extend(name, fn, msg) is that of the first failing
\* check in the order name not text, fn not callable, msg not text, name
\* empty, name already registered; and when none fails (name non-empty text
\* never registered before, fn callable, msg text) the call succeeds and
\* registers the entry.
C9_CheckOrder ==
  [][call'.op = "extend"
       => /\ result' = ExtendOutcome(call', customValidators)
          /\ result' = Registered
               => /\ call'.name.v \in DOMAIN customValidators'
                  /\ customValidators'[call'.name.v] = WrapperOf(call'.fn)]_vars

-----------------------------------------------------------------------------
(* How validate binds the rule function *)

\* the outcome the claim gives for options.validator
BindOutcome(o, registry) ==
  LET v == Opt(o, "validator")
  IN IF v.t = "undefined" THEN Error(ErrValidatorUndefined)
     ELSE IF v.t = "function" THEN [kind |-> "bound", fn |-> v]
     ELSE IF v.t # "string" THEN Error(ErrValidatorType(v))
     ELSE IF v.v \in LibNames THEN [kind |-> "bound", fn |-> validatorjs[v.v]]
     ELSE IF v.v \in DOMAIN registry
       THEN [kind |-> "bound", fn |-> registry[v.v]]
     ELSE Error(ErrNotExist(v.v))

\* C3: validate binds a function given as validator as is; for a name it
\* binds the library's function when the library defines the name, else the
\* registry's function when the name is registered, and else raises the
\* error naming the missing rule; an absent validator raises 'validator
\* option undefined' and one that is neither function nor text the
\* wrong-type error.
C3_Binding ==
  call.op = "validate"
    => LET b == BindOutcome(call.options, customValidators)
       IN IF b.kind = "bound"
            THEN result.kind = "descriptor" /\ result.fn = b.fn
          ELSE result = b

-----------------------------------------------------------------------------
(* A registered rule is the one validate binds *)

\* the values the validator passes without calling the rule function
ShortCircuited(val, passIfEmpty) ==
  \/ val = Undefined
  \/ passIfEmpty /\ (IsEmpty(val) \/ val = Null)

\* the rule function of the descriptor is the function registered under
\* name n, and a call of the validator behaves per that function
BehavesPerRegistered(n) ==
  /\ result.kind = "descriptor"
  /\ result.fn = customValidators[n]
  /\ (run.done /\ ~ShortCircuited(run.val, result.passIfEmpty))
       => LET argv == <<run.val>> \o toArray(Opt(call.options, "arguments"))
              fn == Target(customValidators[n])
          IN /\ run.calls = <<[fn |-> fn, args |-> argv]>>
             /\ run.ret = RuleResult(fn, argv)

ValidateByName(n) ==
  call.op = "validate" /\ Opt(call.options, "validator") = Str(n)

\* C2 (as amended): a successful extend(name, fn, msg) stores a wrapper of
\* fn under name, and from then on, for every registered name that the
\* external library does not define, validate({validator: name, ...})
\* succeeds and the validator of the descriptor behaves per the registered
\* fn: for a value that is not short-circuited it calls fn once with the
\* value followed by the resolved arguments and returns fn's result.
C2_RegisteredRuleUsed ==
  /\ [][result' = Registered
          => /\ IsWrapper(customValidators'[call'.name.v])
             /\ Target(customValidators'[call'.name.v]) = call'.fn]_vars
  /\ [](\A n \in DOMAIN customValidators :
          (ValidateByName(n) /\ n \notin LibNames) => BehavesPerRegistered(n))

\* C2 witness: the validator built for a registered name was called with a
\* value and an argument, and returned what the registered function returns.
C2_Witness ==
  /\ ValidateByName(<<"isFoo">>)
  /\ <<"isFoo">> \in DOMAIN customValidators
  /\ run.done
  /\ run.val = Str(<<"a">>)
  /\ run.calls = <<[fn |-> Fn(<<"f2">>), args |-> <<Str(<<"a">>), Num(1)>>]>>
  /\ run.ret = Bool(TRUE)

\* C2 as stated: the same for every name extend accepts, also one that the
\* external library defines.
C2_Original ==
  \A n \in DOMAIN customValidators :
    ValidateByName(n) => BehavesPerRegistered(n)

-----------------------------------------------------------------------------
(* The message template *)

\* the candidates for the template, in the order of precedence
Candidates(o, registryMsgs) ==
  LET n == IF Opt(o, "validator").t = "string"
             THEN Opt(o, "validator").v ELSE <<>>
  IN <<Opt(o, "message")>>
     \o (IF n \in DOMAIN registryMsgs THEN <<registryMsgs[n]>> ELSE <<>>)
     \o (IF n \in DOMAIN defaultErrorMessages
           THEN <<defaultErrorMessages[n]>> ELSE <<>>)
     \o <<Str(<<"Error">>)>>

IsText(x) == x.t = "string"
IsNonEmptyText(x) == x.t = "string" /\ x.v # <<>>

MessageFrom(template) ==
  Str(interpolateMessageWithArgs(template, result.args))

\* C4 (as amended): the message template validate chooses is the first text,
\* empty or not, in the order: caller-supplied message, registry default
\* message for the rule name, built-in default message for the rule name,
\* "Error"; a message that is not text is skipped, a message that is the
\* empty text is chosen.
C4_FirstText ==
  (call.op = "validate" /\ result.kind = "descriptor")
    => result.obj["message"]
         = MessageFrom(Head(SelectSeq(
             Candidates(call.options, customErrorMessages), IsText)))

\* C4 witness: validate was given the empty text as message for a rule with
\* a registered default message, and the descriptor's message is empty.
C4_Witness ==
  /\ call.op = "validate"
  /\ result.kind = "descriptor"
  /\ Opt(call.options, "message") = Str(<<>>)
  /\ Opt(call.options, "validator") = Str(<<"isFoo">>)
  /\ customErrorMessages[<<"isFoo">>] = Str(CustomMsg)
  /\ result.obj["message"] = Str(<<>>)

\* C4 as stated: the template is the first non-empty text in that order.
C4_Original ==
  (call.op = "validate" /\ result.kind = "descriptor")
    => result.obj["message"]
         = MessageFrom(Head(SelectSeq(
             Candidates(call.options, customErrorMessages), IsNonEmptyText)))

-----------------------------------------------------------------------------
(* validate on one given options object *)

Pending(o) == [op |-> "pending", options |-> o]

InitGiven(optionsSet) ==
  /\ customValidators = <<>>
  /\ customErrorMessages = <<>>
  /\ call \in {Pending(o) : o \in optionsSet}
  /\ result = NoResult
  /\ run = NoRun

ValidateGiven == call.op = "pending" /\ validate(call.options)

\* all sequences over S of length at most n
RECURSIVE SeqsUpTo(_, _)
SeqsUpTo(S, n) ==
  IF n = 0 THEN {<<>>}
  ELSE LET shorter == SeqsUpTo(S, n - 1)
       IN shorter \cup {Append(q, x) : q \in shorter, x \in S}

-----------------------------------------------------------------------------
(* Interpolation of the message *)

TplPieces == {Open, Close, "0", "1"}
Templates == {Str(t) : t \in SeqsUpTo(TplPieces, MaxTplLen)}
ArgValues == {Num(0), Num(1), Bool(FALSE), Str(<<>>), Str(Token0)}
ArgumentsGiven ==
  {Absent} \cup ArgValues \cup {Arr(a) : a \in SeqsUpTo(ArgValues, MaxArgs)}
InterpOptions ==
  {MkOptions(Fn(<<"f1">>), a, Absent, m, <<>>) :
     a \in ArgumentsGiven, m \in Templates}

InitInterp == InitGiven(InterpOptions)
NextInterp == ValidateGiven
SpecInterp == InitInterp /\ [][NextInterp]_vars

\* the resolved argument sequence
ResolvedArgs(o) ==
  IF "arguments" \notin DOMAIN o THEN <<>>
  ELSE IF o["arguments"].t = "array" THEN o["arguments"].v
  ELSE <<o["arguments"]>>

\* the template with each token replaced by the text form of the argument
\* it numbers, or by the empty text when the number is past the end
RECURSIVE Interpolated(_, _, _)
Interpolated(s, args, i) ==
  IF i > Len(s) THEN <<>>
  ELSE IF MatchesAt(s, i)
    THEN LET n == NumVal(SubSeq(s, i + 1, DigitRunEnd(s, i + 1)))
         IN (IF n < Len(args) THEN ToText(args[n + 1]) ELSE <<>>)
            \o Interpolated(s, args, DigitRunEnd(s, i + 1) + 2)
  ELSE <<s[i]>> \o Interpolated(s, args, i + 1)

\* C5: the descriptor's message is the template with each {ARGS[n]} token
\* replaced by the text form of the nth argument of the resolved argument
\* sequence when n is within the sequence and by the empty text when it is
\* past its end, for every argument value, the number 0, false and the
\* empty text included.
C5_Interpolation ==
  (call.op = "validate" /\ result.kind = "descriptor"
     /\ Opt(call.options, "message").t = "string")
    => result.obj["message"]
         = Str(Interpolated(call.options["message"].v,
                            ResolvedArgs(call.options), 1))

\* positions i..j of text s hold a token {ARGS[n]}
TokenAt(s, i, j) ==
  /\ s[i] = Open
  /\ j > i + 1
  /\ \A k \in (i + 1)..(j - 1) : s[k] \in Digits
  /\ s[j] = Close
HasToken(s) == \E i \in 1..Len(s) : \E j \in i..Len(s) : TokenAt(s, i, j)
HasOpen(s) == \E i \in 1..Len(s) : s[i] = Open
StrayOpen(s) ==
  \E i \in 1..Len(s) :
    s[i] = Open /\ ~\E j \in i..Len(s) : TokenAt(s, i, j)
ArgCarriesOpen(args) ==
  \E j \in 1..Len(args) : args[j].t = "string" /\ HasOpen(args[j].v)

\* C6 (as amended): the message of the descriptor is text, and it contains
\* no {ARGS[n]} token provided that every "{" of the template begins a
\* complete token and no argument's text contains "{": every token of the
\* template is replaced in one pass, and the result is not scanned again.
C6_NoTokenLeft ==
  (call.op = "validate" /\ result.kind = "descriptor")
    => /\ result.obj["message"].t = "string"
       /\ (/\ Opt(call.options, "message").t = "string"
           /\ ~StrayOpen(call.options["message"].v)
           /\ ~ArgCarriesOpen(ResolvedArgs(call.options)))
          => ~HasOpen(result.obj["message"].v)

\* C6 witness: a template with a token between other text was interpolated
\* with arguments free of "{", and no token is left.
C6_Witness ==
  /\ call.op = "validate"
  /\ result.kind = "descriptor"
  /\ call.options["message"] = Str(<<"1", Open, "1", Close, "0">>)
  /\ ResolvedArgs(call.options) = <<Num(0), Num(1)>>
  /\ result.obj["message"] = Str(<<"1", "1", "0">>)

\* C6 as stated: the message never contains a {ARGS[n]} token, whatever the
\* template and the arguments.
C6_Original ==
  (call.op = "validate" /\ result.kind = "descriptor")
    => /\ result.obj["message"].t = "string"
       /\ ~HasToken(result.obj["message"].v)

-----------------------------------------------------------------------------
(* The validator of a descriptor *)

CallOptions ==
  {MkOptions(f, a, p, Absent, <<>>) :
     f \in UserFns,
     a \in {Absent, Num(1)} \cup {Arr(q) : q \in SeqsUpTo({Num(0), Str(<<"a">>)}, MaxArgs)},
     p \in {Absent, Bool(TRUE), Bool(FALSE)}}
CallVals ==
  {Undefined, Null, Str(<<>>), Str(<<"a">>), Num(0), Num(1), Bool(FALSE),
   Arr(<<>>), Arr(<<Num(1)>>)}

CallGiven == \E val \in CallVals : ~run.done /\ validator(val)

InitCall == InitGiven(CallOptions)
NextCall == ValidateGiven \/ CallGiven
SpecCall == InitCall /\ [][NextCall]_vars

Requested(o) == "passIfEmpty" \in DOMAIN o /\ o["passIfEmpty"] = Bool(TRUE)
EmptyValues == {Str(<<>>), Num(0), Bool(FALSE), Arr(<<>>), Null}

\* C7: the validator called with v reports success without calling the rule
\* function when v is undefined, whatever passIfEmpty is, and when
\* passIfEmpty was requested and v is empty or null; otherwise it calls the
\* rule function exactly once with v followed by the resolved arguments and
\* reports that function's result.  Without passIfEmpty an empty or null
\* value is not short-circuited.
C7_ShortCircuit ==
  run.done
    => LET o == call.options
           argv == <<run.val>> \o ResolvedArgs(o)
       IN IF run.val = Undefined
               \/ (Requested(o) /\ run.val \in EmptyValues)
            THEN run.calls = <<>> /\ run.ret = Bool(TRUE)
          ELSE /\ run.calls = <<[fn |-> o["validator"], args |-> argv]>>
               /\ run.ret = RuleResult(o["validator"], argv)

\* C7 witness: without passIfEmpty the validator was called with the empty
\* text and called the rule function with it and the two arguments.
C7_Witness ==
  /\ run.done
  /\ ~Requested(call.options)
  /\ run.val = Str(<<>>)
  /\ run.calls = <<[fn |-> Fn(<<"f2">>),
                    args |-> <<Str(<<>>), Str(<<"a">>), Num(0)>>]>>
  /\ run.ret = Bool(TRUE)

-----------------------------------------------------------------------------
(* The shape of the descriptor *)

ExtraKeys == {"foo", "bar"}
ExtraValues == {Str(<<"bar">>), Num(0), Undefined}
Extras ==
  UNION {[ks -> ExtraValues] : ks \in SUBSET ExtraKeys}
ShapeOptions ==
  {MkOptions(v, a, p, m, e) :
     v \in {Absent, Fn(<<"f1">>), Str(<<"isEmail">>), Str(<<"isFoo">>)},
     a \in {Absent, Num(1), Arr(<<Num(1), Str(<<"a">>)>>)},
     p \in {Absent, Bool(TRUE)},
     m \in {Absent, Num(1), Str(<<"m ">> \o Token0)},
     e \in Extras}

InitShape == InitGiven(ShapeOptions)
NextShape == ValidateGiven
SpecShape == InitShape /\ [][NextShape]_vars

\* C8: the keys of the descriptor validate returns are validator, message
\* and the keys of options other than the four reserved ones; a passthrough
\* key holds the value it has in options; validator and message are the
\* computed wrapper and the computed message; arguments and passIfEmpty are
\* not keys of the descriptor; the options object is left as it was.
C8_DescriptorShape ==
  (call.op = "validate" /\ result.kind = "descriptor")
    => LET o == call.options
       IN /\ DOMAIN result.obj
               = {"validator", "message"}
                   \cup (DOMAIN o \ {"validator", "arguments", "passIfEmpty",
                                     "message"})
          /\ \A k \in DOMAIN o \ {"validator", "arguments", "passIfEmpty",
                                  "message"} : result.obj[k] = o[k]
          /\ result.obj["validator"] = ValidatorClosure
          /\ result.obj["validator"] # o["validator"]
          /\ result.obj["message"]
               = MessageFrom(Head(SelectSeq(
                   Candidates(o, customErrorMessages), IsText)))
          /\ "arguments" \notin DOMAIN result.obj
          /\ "passIfEmpty" \notin DOMAIN result.obj
          /\ result.options = o

\* C8 witness: options with all four reserved keys and two passthrough keys
\* gave a descriptor.
C8_Witness ==
  /\ call.op = "validate"
  /\ result.kind = "descriptor"
  /\ DOMAIN call.options = ReservedKeys \cup ExtraKeys
  /\ call.options["message"] = Num(1)
  /\ call.options["foo"] = Undefined
  /\ result.obj["foo"] = Undefined
  /\ result.obj["bar"] = Str(<<"bar">>)
  /\ result.obj["message"] = Str(<<"Invalid email ", "1">>)

====
